---- MODULE Spec2Model ----
(***************************************************************************)
(* Verification model of the coloring-book image pipelines:                *)
(*   - edgeMap.ts      toEdgePng: grayscale, bilateral3, sobel, NMS,       *)
(*                     percentile thresholds, hysteresis, medianSeal       *)
(*   - palette.ts      getDominantHexes / kmeansPP / similarHex            *)
(*   - services/color  normalizeItem / FC_ALL / matchToFaberCastell        *)
(*   - fcPalette.ts    loadFaberCastellPalette                             *)
(* Each pipeline has its own specification (SpecEdge, SpecPalette,         *)
(* SpecMatch); the variables of the other pipelines stay idle.             *)
(***************************************************************************)
EXTENDS Integers, Naturals, Sequences, FiniteSets, TLC

VARIABLES
  \* ---- edgeMap.ts: toEdgePng ----
  pc,        \* position inside toEdgePng
  src,       \* decoded source image: [w, h, uniform]
  maxOutW,   \* parameter maxOutWidth
  ui,        \* parameter ui (intensity)
  dims,      \* [targetW, targetH, workW, workH]
  canvas,    \* id.data of the working canvas, one RGB record per pixel
  gray, den, \* toGrayscale / bilateral3 outputs
  mag, ang,  \* sobel outputs (mag holds the squared magnitude, ang the pair gx,gy)
  nms,       \* nonMaxSuppression output (squared magnitudes)
  thr,       \* [high, low] from percentileThresholds
  edges,     \* hysteresis / medianSeal edge map: 0=bg, 1=weak, 2=strong
  changed,   \* the `changed` flag of the hysteresis loop
  passes,    \* number of full passes the hysteresis loop has run
  painted,   \* gray value written back to id.data by the render loop
  ran,       \* pipeline stages that have run, in order
  err,       \* rejection reason of the returned promise ("" if none)
  \* ---- palette.ts: getDominantHexes ----
  ppc,       \* position inside getDominantHexes / kmeansPP
  pixels,    \* RGBA pixels read back by readImagePixels
  kArg,      \* parameter k
  points,    \* the filtered samples handed to kmeansPP
  centers,   \* the centers array of kmeansPP
  seedIters, \* iterations of the seeding loop run so far
  iter,      \* the Lloyd iteration counter
  hexes,     \* the weight-sorted hex list
  deduped,   \* the hex list after the de-duplicating filter
  result,    \* the returned list
  \* ---- services/color.ts and utils/fcPalette.ts ----
  mpc,         \* "init", "ready" (module evaluated), "matched", "fetched"
  fcRaw,       \* the raw palette data: [arr, items]
  exportAs,    \* export of ../utils/colorMatch that carries fcRaw, or "none"
  fcAll,       \* FC_ALL
  opts,        \* argument opts of matchToFaberCastell: [setSize, topK]
  sourceHexes, \* argument sourceHexes of matchToFaberCastell
  results,     \* value returned by matchToFaberCastell
  loaded,      \* value loadFaberCastellPalette resolves to
  lerr,        \* message loadFaberCastellPalette throws ("" if none)
  \* ---- hysteresis with its loop body applied in an arbitrary pixel order ----
  opc,         \* "idle", "scan" (inside a full pass), "returned"
  omap,        \* the edge map of that run
  ovisit,      \* weak pixels examined so far in the current full pass
  ochg,        \* whether the current full pass has promoted a pixel
  \* ---- App.tsx ----
  state,       \* the AppState: [originalDataUrl, lineArtUrl, busy, error]
  reads,       \* photos whose FileReader has been started and has not fired yet
  request,     \* photo sent by the generateAiLineArt call in flight (0 if none)
  pdf          \* [originalDataUrl, lineArtUrl] of the pages handed to buildPdf

edgeVars == <<pc, src, maxOutW, ui, dims, canvas, gray, den, mag, ang, nms,
              thr, edges, changed, passes, painted, ran, err>>

paletteVars == <<ppc, pixels, kArg, points, centers, seedIters, iter, hexes,
                 deduped, result>>

matchVars == <<mpc, fcRaw, exportAs, fcAll, opts, sourceHexes, results, loaded, lerr>>

orderVars == <<opc, omap, ovisit, ochg>>

appVars == <<state, reads, request, pdf>>

vars == <<edgeVars, paletteVars, matchVars, orderVars, appVars>>

\* ------------------------------------------------------------------------
\* Bounds of the model
\* ------------------------------------------------------------------------
MaxSrcW == 3      \* source widths 0..MaxSrcW
MaxSrcH == 3      \* source heights 0..MaxSrcH
MaxOutW == 3      \* maxOutWidth 1..MaxOutW
MaxLit  == 2      \* a non-uniform canvas has 1..MaxLit light pixels on dark
MaxPixels == 3    \* getDominantHexes reads images of 1..MaxPixels pixels
MaxK == 3         \* parameter k of getDominantHexes ranges over 1..MaxK
MaxSeedIters == 4 \* iterations of the seeding loop that are followed
MaxTopK == 6      \* opts.topK is undefined or in 0..MaxTopK
MaxPhotos == 2    \* photos the user picks from

\* program constants
LloydIterations == 8   \* palette.ts line 100

\* ------------------------------------------------------------------------
\* Helpers
\* ------------------------------------------------------------------------
Min(a, b) == IF a <= b THEN a ELSE b
Max(a, b) == IF a >= b THEN a ELSE b
Abs(a) == IF a < 0 THEN -a ELSE a

RECURSIVE SeqSum(_)
SeqSum(s) == IF s = <<>> THEN 0 ELSE Head(s) + SeqSum(Tail(s))

\* Colours the working canvas is drawn from.  They are chosen so that the
\* IEEE-754 evaluation of the luminance formula and of the bilateral weights
\* agrees with exact arithmetic: luminance 0, 236.589 and 94.84, and range
\* weights exp(-236^2/648) that vanish next to 1.
Dark  == [r |-> 0,   g |-> 0,   b |-> 0]
Light == [r |-> 255, g |-> 255, b |-> 0]
Steel == [r |-> 51,  g |-> 102, b |-> 153]
UniformColors == {Dark, Light, Steel}
UiValues == {34, 50}

Idx(w, h) == 0 .. (w * h - 1)

\* sets of at most k pixel indices
RECURSIVE LitSets(_, _)
LitSets(I, k) ==
  IF k = 0 THEN {{}}
  ELSE LET P == LitSets(I, k - 1) IN P \cup {s \cup {i} : s \in P, i \in I}

\* Contents ctx.drawImage leaves in the working canvas (line 148): a uniform
\* source stays uniform, any other source gives a two-level picture.
CanvasImages(w, h, uniform) ==
  IF uniform
  THEN {[j \in Idx(w, h) |-> c] : c \in UniformColors}
  ELSE {[j \in Idx(w, h) |-> IF j \in S THEN Light ELSE Dark] :
          S \in LitSets(Idx(w, h), MaxLit) \ {{}}}

\* ------------------------------------------------------------------------
\* edgeMap.ts
\* ------------------------------------------------------------------------

\* Math.round(img.height * (targetW / img.width)), lines 138-140
roundDiv(n, d) == (2 * n + d) \div (2 * d)

\* variant of workDims that clamps both target extents to at least 1, the
\* way readImagePixels of palette.ts sizes its canvas
workDims_clamped(sw, sh, mow) ==
  LET tw == Max(1, Min(mow, sw))
      th == Max(1, IF sw = 0 THEN 0 ELSE roundDiv(sh * tw, sw))
  IN [targetW |-> tw, targetH |-> th, workW |-> tw * 2, workH |-> th * 2]

\* lines 138-141; a zero width makes scale NaN, and the NaN height is
\* coerced to 0 by the canvas
workDims(sw, sh, mow) ==
  LET tw == Min(mow, sw)
      th == IF sw = 0 THEN 0 ELSE roundDiv(sh * tw, sw)
  IN [targetW |-> tw, targetH |-> th, workW |-> tw * 2, workH |-> th * 2]

\* wctx.getImageData(0, 0, workW, workH), line 150: the canvas API throws an
\* IndexSizeError DOMException when sw or sh is zero, which rejects the
\* promise of the async function
getImageDataThrows(w, h) == w = 0 \/ h = 0

\* lines 7-14
toGrayscale(img) ==
  [j \in DOMAIN img |->
     (2126 * img[j].r + 7152 * img[j].g + 722 * img[j].b) \div 10000]

\* the 3x3 window offsets <<yy, xx>> in loop order
Offsets9 ==
  << <<-1,-1>>, <<-1,0>>, <<-1,1>>, <<0,-1>>, <<0,0>>, <<0,1>>,
     <<1,-1>>, <<1,0>>, <<1,1>> >>

\* range(d) of bilateral3 for sigmaR = 18, line 19, on the levels of the
\* model: exp(0) = 1, and exp(-d*d/648) for |d| >= 236 is below 1e-37, which
\* is absorbed when added to a weight sum >= 1 and truncates to 0 in acc/ws
rangeWeight(d) == IF d = 0 THEN 1 ELSE 0

\* lines 17-40
bilateral3(g, w, h) ==
  [i \in DOMAIN g |->
     LET x == i % w
         y == i \div w
         nb(o) == g[Min(h - 1, Max(0, y + o[1])) * w + Min(w - 1, Max(0, x + o[2]))]
         ws  == SeqSum([k \in 1..9 |-> rangeWeight(nb(Offsets9[k]) - g[i])])
         acc == SeqSum([k \in 1..9 |-> rangeWeight(nb(Offsets9[k]) - g[i]) * nb(Offsets9[k])])
     IN acc \div (IF ws = 0 THEN 1 ELSE ws)]

isInterior(i, w, h) ==
  LET x == i % w
      y == i \div w
  IN x >= 1 /\ x < w - 1 /\ y >= 1 /\ y < h - 1

gxK == <<-1, 0, 1, -2, 0, 2, -1, 0, 1>>
gyK == <<-1, -2, -1, 0, 0, 0, 1, 2, 1>>

sobelG(s, w, i, K) ==
  SeqSum([k \in 1..9 |-> K[k] * s[i + Offsets9[k][1] * w + Offsets9[k][2]]])

\* lines 42-63.  mag holds gx*gx + gy*gy: Math.hypot is only ever compared
\* (>=, > 0, sorted), and the square root is strictly monotone on the
\* integers that occur, so every comparison has the same outcome.
sobelMag(s, w, h) ==
  [i \in DOMAIN s |->
     IF isInterior(i, w, h)
     THEN sobelG(s, w, i, gxK) * sobelG(s, w, i, gxK)
          + sobelG(s, w, i, gyK) * sobelG(s, w, i, gyK)
     ELSE 0]

\* ang holds the arguments of Math.atan2(gy, gx); the border keeps 0 = atan2(0, 0)
sobelAng(s, w, h) ==
  [i \in DOMAIN s |->
     IF isInterior(i, w, h)
     THEN [gx |-> sobelG(s, w, i, gxK), gy |-> sobelG(s, w, i, gyK)]
     ELSE [gx |-> 0, gy |-> 0]]

\* lines 70-75: the branch taken for theta = |atan2(gy, gx)| in degrees.
\* tan 22.5 = sqrt2 - 1 and tan 67.5 = sqrt2 + 1, so the tests are done on
\* squares: a <= (sqrt2 - 1) * b  <=>  (a + b)^2 <= 2 * b^2
thetaBin(a) ==
  LET ay == Abs(a.gy)
      ax == Abs(a.gx)
  IN IF a.gx = 0 /\ a.gy = 0 THEN 0
     ELSE IF a.gx > 0 /\ (ay + ax) * (ay + ax) <= 2 * ax * ax THEN 0
     ELSE IF a.gx < 0 /\ (ay + ax) * (ay + ax) < 2 * ax * ax THEN 0
     ELSE IF a.gx > 0 /\ (ay <= ax \/ (ay - ax) * (ay - ax) <= 2 * ax * ax) THEN 1
     ELSE IF a.gx >= 0 THEN 2
     ELSE IF ay >= ax /\ (ay - ax) * (ay - ax) >= 2 * ax * ax THEN 2
     ELSE 3

\* lines 65-80
nonMaxSuppression(m, a, w, h) ==
  [i \in DOMAIN m |->
     IF isInterior(i, w, h)
     THEN LET bin == thetaBin(a[i])
              q == CASE bin = 0 -> m[i + 1]
                     [] bin = 1 -> m[i + w + 1]
                     [] bin = 2 -> m[i + w]
                     [] OTHER   -> m[i - w + 1]
              r == CASE bin = 0 -> m[i - 1]
                     [] bin = 1 -> m[i - w - 1]
                     [] bin = 2 -> m[i - w]
                     [] OTHER   -> m[i + w - 1]
          IN IF m[i] >= q /\ m[i] >= r THEN m[i] ELSE 0
     ELSE 0]

\* ascending sort of a sequence of numbers (Array.prototype.sort, line 83)
RECURSIVE insertSorted(_, _)
insertSorted(s, v) ==
  IF s = <<>> THEN <<v>>
  ELSE IF v < Head(s) THEN <<v>> \o s
  ELSE <<Head(s)>> \o insertSorted(Tail(s), v)

RECURSIVE positiveSorted(_, _)
positiveSorted(f, n) ==
  IF n = 0 THEN <<>>
  ELSE LET rest == positiveSorted(f, n - 1)
       IN IF f[n - 1] > 0 THEN insertSorted(rest, f[n - 1]) ELSE rest

\* line 157, in thousandths: max(0.82, min(0.92, 0.82 + (ui - 30) * 0.005))
hiPctM(u) == Max(820, Min(920, 820 + (u - 30) * 5))

\* lines 82-88 with loPct = hiPct * 0.55 (line 158)
percentileThresholds(f, n, u) ==
  LET vals == positiveSorted(f, n)
  IN IF Len(vals) = 0 THEN [high |-> 0, low |-> 0]
     ELSE [high |-> vals[(Len(vals) * hiPctM(u)) \div 1000 + 1],
           low  |-> vals[(Len(vals) * hiPctM(u) * 55) \div 100000 + 1]]

\* lines 91-95
hystClassify(f, high, low) ==
  [i \in DOMAIN f |-> IF f[i] >= high THEN 2 ELSE IF f[i] >= low THEN 1 ELSE 0]

\* the eight neighbour offsets of lines 103-105
Offsets8 == SelectSeq(Offsets9, LAMBDA o : o # <<0, 0>>)

\* variant of hasStrongNeighbour that looks at the 4 edge-adjacent pixels only
hasStrongNeighbour_4(o, w, i) ==
  \E k \in {2, 4, 5, 7} : o[i + Offsets8[k][1] * w + Offsets8[k][2]] = 2

hasStrongNeighbour(o, w, i) ==
  \E k \in 1..8 : o[i + Offsets8[k][1] * w + Offsets8[k][2]] = 2

\* the k-th interior pixel of the row-major scan, k = 1 .. (w-2)*(h-2)
interiorAt(k, w) == (1 + ((k - 1) \div (w - 2))) * w + 1 + ((k - 1) % (w - 2))
interiorCount(w, h) == IF w < 3 \/ h < 3 THEN 0 ELSE (w - 2) * (h - 2)

\* one full pass of lines 99-110: row-major, in place, so a promotion is
\* visible to the pixels scanned after it
RECURSIVE hystScan(_, _, _, _)
hystScan(o, w, k, n) ==
  IF k > n THEN o
  ELSE LET i == interiorAt(k, w)
       IN IF o[i] = 1 /\ hasStrongNeighbour(o, w, i)
          THEN hystScan([o EXCEPT ![i] = 2], w, k + 1, n)
          ELSE hystScan(o, w, k + 1, n)

\* variant of hystPass with the row loop bound y < h - 2: the last interior
\* row is not scanned
hystPass_shortRows(o, w, h) ==
  hystScan(o, w, 1, IF w < 3 \/ h < 3 THEN 0 ELSE (w - 2) * (h - 3))

hystPass(o, w, h) == hystScan(o, w, 1, interiorCount(w, h))

\* variant of hystChanged with changed = true set before the test of line 102
\* is passed: the flag is raised whenever the pass meets a weak pixel
hystChanged_anyWeak(before, after) == \E i \in DOMAIN before : before[i] = 1

\* variant of hystChanged that never raises the flag: the loop runs one pass
hystChanged_never(before, after) == FALSE

\* the `changed` flag after a pass, line 106
hystChanged(before, after) == before # after

\* the row-major scan of a medianSeal that counts in the map it writes
RECURSIVE sealScanInPlace(_, _, _, _)
sealScanInPlace(o, w, k, n) ==
  IF k > n THEN o
  ELSE LET i == interiorAt(k, w)
           cnt == Cardinality({j \in 1..9 :
                     o[i + Offsets9[j][1] * w + Offsets9[j][2]] = 2})
       IN sealScanInPlace(IF cnt >= 5 THEN [o EXCEPT ![i] = 2] ELSE o, w, k + 1, n)

\* variant of medianSeal without the copy of line 117 (out = strong)
medianSeal_inPlace(s, w, h) == sealScanInPlace(s, w, 1, interiorCount(w, h))

\* lines 116-129
medianSeal(s, w, h) ==
  [i \in DOMAIN s |->
     IF isInterior(i, w, h)
     THEN LET cnt == Cardinality({k \in 1..9 :
                        s[i + Offsets9[k][1] * w + Offsets9[k][2]] = 2})
          IN IF cnt >= 5 THEN 2 ELSE s[i]
     ELSE s[i]]

\* lines 164-167
renderGray(e) == [j \in DOMAIN e |-> IF e[j] = 2 THEN 0 ELSE 255]

\* ---- the indices the stages touch ---------------------------------------

\* variant of scanned for loops that start at 0 instead of 1
scanned_fromZero(w, h) == {y * w + x : y \in 0..(h - 2), x \in 0..(w - 2)}

\* the pixels visited by the loops y = 1 .. h-2, x = 1 .. w-2 of lines
\* 47-48, 67-68, 99-100 and 118-119
scanned(w, h) == {y * w + x : y \in 1..(h - 2), x \in 1..(w - 2)}

\* sobel: reads of line 52, writes of lines 57-59
sobelReads(w, h) ==
  {((i \div w) + yy) * w + ((i % w) + xx) : i \in scanned(w, h), yy \in -1..1, xx \in -1..1}
sobelWrites(w, h) == scanned(w, h)

\* nonMaxSuppression: reads of lines 70-76, write of line 76
nmsReads(w, h) ==
  {i + d : i \in scanned(w, h),
           d \in {0, 1, -1, w + 1, -w - 1, w, -w, -w + 1, w - 1}}
nmsWrites(w, h) == scanned(w, h)

\* hysteresis: the classification of lines 92-95 visits 0 .. nms.length - 1,
\* the loop reads out[i] (line 102) and its neighbours (line 106), writes out[i]
hystAccesses(w, h) ==
  (0 .. (w * h - 1))
  \cup {((i \div w) + yy) * w + ((i % w) + xx) : i \in scanned(w, h), yy \in -1..1, xx \in -1..1}

\* medianSeal: reads of lines 124-125, write of line 125
sealAccesses(w, h) ==
  {((i \div w) + yy) * w + ((i % w) + xx) : i \in scanned(w, h), yy \in -1..1, xx \in -1..1}

\* ---- toEdgePng as a state machine -------------------------------------

PaletteIdle ==
  /\ ppc = "idle" /\ pixels = <<>> /\ kArg = 0 /\ points = <<>>
  /\ centers = <<>> /\ seedIters = 0 /\ iter = 0 /\ hexes = <<>>
  /\ deduped = <<>> /\ result = <<>>

MatchIdle ==
  /\ mpc = "idle" /\ fcRaw = [arr |-> FALSE, items |-> <<>>] /\ exportAs = "none"
  /\ fcAll = <<>> /\ opts = <<>> /\ sourceHexes = <<>> /\ results = <<>>
  /\ loaded = <<>> /\ lerr = ""

OrderIdle == opc = "idle" /\ omap = <<>> /\ ovisit = {} /\ ochg = FALSE

\* a photo is named by a number in 1..MaxPhotos, 0 stands for undefined; the
\* line art generated from photo p is named p as well
AppIdle ==
  /\ state = [originalDataUrl |-> 0, lineArtUrl |-> 0, busy |-> FALSE, error |-> ""]
  /\ reads = {} /\ request = 0 /\ pdf = {}

InitEdge ==
  /\ pc = "load"
  /\ src \in [w : 0..MaxSrcW, h : 0..MaxSrcH, uniform : BOOLEAN]
  /\ maxOutW \in 1..MaxOutW
  /\ ui \in UiValues
  /\ dims = [targetW |-> 0, targetH |-> 0, workW |-> 0, workH |-> 0]
  /\ canvas = <<>> /\ gray = <<>> /\ den = <<>> /\ mag = <<>> /\ ang = <<>>
  /\ nms = <<>> /\ thr = [high |-> 0, low |-> 0] /\ edges = <<>>
  /\ changed = FALSE /\ passes = 0 /\ painted = <<>> /\ ran = <<>> /\ err = ""
  /\ PaletteIdle
  /\ MatchIdle
  /\ OrderIdle
  /\ AppIdle

\* lines 137-150: size the working canvas, draw, read the pixels back
LoadImage ==
  /\ pc = "load"
  /\ dims' = workDims(src.w, src.h, maxOutW)
  /\ IF getImageDataThrows(dims'.workW, dims'.workH)
     THEN /\ pc' = "rejected"
          /\ err' = "IndexSizeError"
          /\ UNCHANGED canvas
     ELSE /\ pc' = "grayscale"
          /\ canvas' \in CanvasImages(dims'.workW, dims'.workH, src.uniform)
          /\ UNCHANGED err
  /\ UNCHANGED <<src, maxOutW, ui, gray, den, mag, ang, nms, thr, edges,
                 changed, passes, painted, ran>>
  /\ UNCHANGED <<paletteVars, matchVars, orderVars, appVars>>

\* line 151
Grayscale ==
  /\ pc = "grayscale"
  /\ gray' = toGrayscale(canvas)
  /\ ran' = Append(ran, "grayscale")
  /\ pc' = "denoise"
  /\ UNCHANGED <<src, maxOutW, ui, dims, canvas, den, mag, ang, nms, thr,
                 edges, changed, passes, painted, err>>
  /\ UNCHANGED <<paletteVars, matchVars, orderVars, appVars>>

\* line 152
Denoise ==
  /\ pc = "denoise"
  /\ den' = bilateral3(gray, dims.workW, dims.workH)
  /\ ran' = Append(ran, "denoise")
  /\ pc' = "sobel"
  /\ UNCHANGED <<src, maxOutW, ui, dims, canvas, gray, mag, ang, nms, thr,
                 edges, changed, passes, painted, err>>
  /\ UNCHANGED <<paletteVars, matchVars, orderVars, appVars>>

\* line 153
Sobel ==
  /\ pc = "sobel"
  /\ mag' = sobelMag(den, dims.workW, dims.workH)
  /\ ang' = sobelAng(den, dims.workW, dims.workH)
  /\ ran' = Append(ran, "sobel")
  /\ pc' = "nms"
  /\ UNCHANGED <<src, maxOutW, ui, dims, canvas, gray, den, nms, thr,
                 edges, changed, passes, painted, err>>
  /\ UNCHANGED <<paletteVars, matchVars, orderVars, appVars>>

\* line 154
Nms ==
  /\ pc = "nms"
  /\ nms' = nonMaxSuppression(mag, ang, dims.workW, dims.workH)
  /\ ran' = Append(ran, "nms")
  /\ pc' = "thresholds"
  /\ UNCHANGED <<src, maxOutW, ui, dims, canvas, gray, den, mag, ang, thr,
                 edges, changed, passes, painted, err>>
  /\ UNCHANGED <<paletteVars, matchVars, orderVars, appVars>>

\* lines 157-159
Thresholds ==
  /\ pc = "thresholds"
  /\ thr' = percentileThresholds(nms, dims.workW * dims.workH, ui)
  /\ ran' = Append(ran, "thresholds")
  /\ pc' = "classify"
  /\ UNCHANGED <<src, maxOutW, ui, dims, canvas, gray, den, mag, ang, nms,
                 edges, changed, passes, painted, err>>
  /\ UNCHANGED <<paletteVars, matchVars, orderVars, appVars>>

\* hysteresis, lines 91-96: classify and enter the loop
HystClassify ==
  /\ pc = "classify"
  /\ edges' = hystClassify(nms, thr.high, thr.low)
  /\ changed' = TRUE
  /\ passes' = 0
  /\ ran' = Append(ran, "hysteresis")
  /\ pc' = "link"
  /\ UNCHANGED <<src, maxOutW, ui, dims, canvas, gray, den, mag, ang, nms,
                 thr, painted, err>>
  /\ UNCHANGED <<paletteVars, matchVars, orderVars, appVars>>

\* hysteresis, lines 97-111: one iteration of while (changed)
HystPass ==
  /\ pc = "link"
  /\ changed
  /\ edges' = hystPass(edges, dims.workW, dims.workH)
  /\ changed' = hystChanged(edges, edges')
  /\ passes' = passes + 1
  /\ UNCHANGED <<pc, src, maxOutW, ui, dims, canvas, gray, den, mag, ang, nms,
                 thr, painted, ran, err>>
  /\ UNCHANGED <<paletteVars, matchVars, orderVars, appVars>>

\* hysteresis, line 112: the loop exits and the map is returned
HystReturn ==
  /\ pc = "link"
  /\ ~changed
  /\ pc' = "seal"
  /\ UNCHANGED <<src, maxOutW, ui, dims, canvas, gray, den, mag, ang, nms,
                 thr, edges, changed, passes, painted, ran, err>>
  /\ UNCHANGED <<paletteVars, matchVars, orderVars, appVars>>

\* line 161
Seal ==
  /\ pc = "seal"
  /\ edges' = medianSeal(edges, dims.workW, dims.workH)
  /\ ran' = Append(ran, "seal")
  /\ pc' = "render"
  /\ UNCHANGED <<src, maxOutW, ui, dims, canvas, gray, den, mag, ang, nms,
                 thr, changed, passes, painted, err>>
  /\ UNCHANGED <<paletteVars, matchVars, orderVars, appVars>>

\* lines 164-168
Render ==
  /\ pc = "render"
  /\ painted' = renderGray(edges)
  /\ ran' = Append(ran, "render")
  /\ pc' = "done"
  /\ UNCHANGED <<src, maxOutW, ui, dims, canvas, gray, den, mag, ang, nms,
                 thr, edges, changed, passes, err>>
  /\ UNCHANGED <<paletteVars, matchVars, orderVars, appVars>>

NextEdge ==
  \/ LoadImage \/ Grayscale \/ Denoise \/ Sobel \/ Nms \/ Thresholds
  \/ HystClassify \/ HystPass \/ HystReturn \/ Seal \/ Render

SpecEdge == InitEdge /\ [][NextEdge]_vars

\* ---- the loop of hysteresis with its body applied in any pixel order ----

\* interior weak pixels the current full pass has not examined yet
orderPending ==
  {i \in DOMAIN omap : isInterior(i, dims.workW, dims.workH)
                       /\ omap[i] = 1 /\ i \notin ovisit}

\* lines 91-96: the run starts from the classification of the same field,
\* once the row-major loop has returned its map
OrderStart ==
  /\ pc = "seal"
  /\ opc = "idle"
  /\ omap' = hystClassify(nms, thr.high, thr.low)
  /\ ovisit' = {}
  /\ ochg' = FALSE
  /\ opc' = "scan"
  /\ UNCHANGED <<edgeVars, paletteVars, matchVars, appVars>>

\* lines 101-107 for one pixel, any pixel of the pass that is still to be
\* examined (a pixel that is not weak is skipped by line 102)
OrderExamine ==
  /\ opc = "scan"
  /\ \E i \in orderPending :
       /\ IF hasStrongNeighbour(omap, dims.workW, i)
          THEN omap' = [omap EXCEPT ![i] = 2] /\ ochg' = TRUE
          ELSE UNCHANGED <<omap, ochg>>
       /\ ovisit' = ovisit \cup {i}
  /\ UNCHANGED opc
  /\ UNCHANGED <<edgeVars, paletteVars, matchVars, appVars>>

\* lines 97-98: a full pass that promoted a pixel is followed by another
OrderNextPass ==
  /\ opc = "scan"
  /\ orderPending = {}
  /\ ochg
  /\ ovisit' = {}
  /\ ochg' = FALSE
  /\ UNCHANGED <<opc, omap>>
  /\ UNCHANGED <<edgeVars, paletteVars, matchVars, appVars>>

\* line 112: a full pass without a promotion ends the loop
OrderReturn ==
  /\ opc = "scan"
  /\ orderPending = {}
  /\ ~ochg
  /\ opc' = "returned"
  /\ UNCHANGED <<omap, ovisit, ochg>>
  /\ UNCHANGED <<edgeVars, paletteVars, matchVars, appVars>>

NextOrder ==
  \/ LoadImage \/ Grayscale \/ Denoise \/ Sobel \/ Nms \/ Thresholds
  \/ HystClassify \/ HystPass \/ HystReturn
  \/ OrderStart \/ OrderExamine \/ OrderNextPass \/ OrderReturn

SpecOrder == InitEdge /\ [][NextOrder]_vars

\* ------------------------------------------------------------------------
\* palette.ts
\* ------------------------------------------------------------------------

EdgeIdle ==
  /\ pc = "idle" /\ src = [w |-> 0, h |-> 0, uniform |-> FALSE]
  /\ maxOutW = 0 /\ ui = 0
  /\ dims = [targetW |-> 0, targetH |-> 0, workW |-> 0, workH |-> 0]
  /\ canvas = <<>> /\ gray = <<>> /\ den = <<>> /\ mag = <<>> /\ ang = <<>>
  /\ nms = <<>> /\ thr = [high |-> 0, low |-> 0] /\ edges = <<>>
  /\ changed = FALSE /\ passes = 0 /\ painted = <<>> /\ ran = <<>> /\ err = ""

\* RGBA pixels an image is made of: two near-equal blues, a red, a near-white
\* and a transparent pixel
PxSteel     == [r |-> 51,  g |-> 102, b |-> 153, a |-> 255]
PxSteelNear == [r |-> 55,  g |-> 104, b |-> 150, a |-> 255]
PxRed       == [r |-> 200, g |-> 30,  b |-> 30,  a |-> 255]
PxWhite     == [r |-> 250, g |-> 250, b |-> 250, a |-> 255]
PxClear     == [r |-> 51,  g |-> 102, b |-> 153, a |-> 0]
PixelKinds  == {PxSteel, PxSteelNear, PxRed, PxWhite, PxClear}

Max3(a, b, c) == Max(a, Max(b, c))
Min3(a, b, c) == Min(a, Min(b, c))

\* lines 58-69 with step = 1: drop the pixels with alpha < 8
samplePixels(raw) ==
  LET opaque == SelectSeq(raw, LAMBDA q : ~(q.a < 8))
  IN [i \in 1..Len(opaque) |->
        [r |-> opaque[i].r, g |-> opaque[i].g, b |-> opaque[i].b]]

\* the predicate of the noise filter, lines 16-21
keepSample(q) ==
  LET max == Max3(q.r, q.g, q.b)
      min == Min3(q.r, q.g, q.b)
      sat == max - min
  IN /\ ~(max > 245 /\ min > 245)
     /\ ~(max < 10 /\ min < 10)
     /\ (sat > 8 \/ (max > 30 /\ max < 230))

\* line 23: Math.min(k, Math.max(3, Math.floor(filtered.length / 200)))
clusterCount(k, n) == Min(k, Max(3, n \div 200))

\* A center is the exact fraction (r/d, g/d, b/d) with its weight; a seeded
\* center is a sample (d = 1, weight 1, lines 79 and 93).
seedCenter(q) == [r |-> q.r, g |-> q.g, b |-> q.b, d |-> 1, weight |-> 1]

\* dist2 of lines 81-84 between a sample and a center, times c.d * c.d
dist2Num(q, c) ==
  (q.r * c.d - c.r) * (q.r * c.d - c.r)
  + (q.g * c.d - c.g) * (q.g * c.d - c.g)
  + (q.b * c.d - c.b) * (q.b * c.d - c.b)

\* line 87: squared distance of a sample to its nearest seeded center
RECURSIVE minDist(_, _)
minDist(q, cs) ==
  IF Len(cs) = 1 THEN dist2Num(q, cs[1])
  ELSE Min(dist2Num(q, Head(cs)), minDist(q, Tail(cs)))

seedDists(pts, cs) == [i \in 1..Len(pts) |-> minDist(pts[i], cs)]

\* line 88: dists.reduce(...) || 1
seedSum(dists) == IF SeqSum(dists) = 0 THEN 1 ELSE SeqSum(dists)

RECURSIVE prefixSum(_, _)
prefixSum(dists, i) == IF i = 0 THEN 0 ELSE dists[i] + prefixSum(dists, i - 1)

\* line 89: r = Math.random() * sum lies in [0, sum).  The loop of lines
\* 90-96 only compares r with the prefix sums of dists, so r is drawn, in
\* half units, at every prefix sum and just above it.
seedDraws(dists) ==
  {c \in {2 * prefixSum(dists, i) + e : i \in 0..Len(dists), e \in {0, 1}} :
     c < 2 * seedSum(dists)}

\* lines 90-96: index (1-based) of the sample pushed for the draw r2 (half
\* units), or 0 when the for loop ends without a push
RECURSIVE seedPick(_, _, _)
seedPick(dists, r2, i) ==
  IF i > Len(dists) THEN 0
  ELSE IF r2 - 2 * dists[i] <= 0 THEN i
  ELSE seedPick(dists, r2 - 2 * dists[i], i + 1)

\* lines 103-107: index of the nearest center, first one on ties; distances
\* to centers with different denominators are compared cross-multiplied
RECURSIVE nearestFrom(_, _, _, _)
nearestFrom(q, cs, i, bi) ==
  IF i > Len(cs) THEN bi
  ELSE IF bi = 0
          \/ dist2Num(q, cs[i]) * cs[bi].d * cs[bi].d
               < dist2Num(q, cs[bi]) * cs[i].d * cs[i].d
       THEN nearestFrom(q, cs, i + 1, i)
       ELSE nearestFrom(q, cs, i + 1, bi)

nearestCenter(q, cs) == nearestFrom(q, cs, 1, 0)

\* lines 101-110: the sums of one Lloyd iteration for center i
lloydSums(pts, cs, i) ==
  LET mine == SelectSeq(pts, LAMBDA q : nearestCenter(q, cs) = i)
  IN [r |-> SeqSum([j \in 1..Len(mine) |-> mine[j].r]),
      g |-> SeqSum([j \in 1..Len(mine) |-> mine[j].g]),
      b |-> SeqSum([j \in 1..Len(mine) |-> mine[j].b]),
      w |-> Len(mine)]

\* lines 111-119: a center with assigned samples moves to their mean and
\* takes their count as weight, any other center is left as it is
lloydStep(pts, cs) ==
  [i \in 1..Len(cs) |->
     LET sm == lloydSums(pts, cs, i)
     IN IF sm.w > 0
        THEN [r |-> sm.r, g |-> sm.g, b |-> sm.b, d |-> sm.w, weight |-> sm.w]
        ELSE cs[i]]

\* line 25: stable sort by descending weight
RECURSIVE insertByWeight(_, _)
insertByWeight(s, c) ==
  IF s = <<>> THEN <<c>>
  ELSE IF Head(s).weight < c.weight THEN <<c>> \o s
  ELSE <<Head(s)>> \o insertByWeight(Tail(s), c)

RECURSIVE sortByWeight(_)
sortByWeight(cs) ==
  IF cs = <<>> THEN <<>>
  ELSE insertByWeight(sortByWeight(SubSeq(cs, 1, Len(cs) - 1)), cs[Len(cs)])

\* line 7
clamp(n) == Max(0, Min(255, n))

\* lines 8-9: Math.round of each channel, clamped, as two hex digits
rgbToHex(c) ==
  LET R == clamp((2 * c.r + c.d) \div (2 * c.d))
      G == clamp((2 * c.g + c.d) \div (2 * c.d))
      B == clamp((2 * c.b + c.d) \div (2 * c.d))
  IN <<R \div 16, R % 16, G \div 16, G % 16, B \div 16, B % 16>>

\* lines 130-134 on a six-digit hex
hexToRgb(hex) ==
  [r |-> 16 * hex[1] + hex[2], g |-> 16 * hex[3] + hex[4], b |-> 16 * hex[5] + hex[6]]

\* lines 124-128
similarHex(a, b, tol) ==
  LET pa == hexToRgb(a)
      pb == hexToRgb(b)
      dr == pa.r - pb.r
      dg == pa.g - pb.g
      db == pa.b - pb.b
  IN IF dr * dr + dg * dg + db * db > tol * tol THEN TRUE ELSE FALSE

\* Array.prototype.findIndex with the predicate of line 28: the 0-based index
\* of the first h with similarHex(hex, h, 8), or -1
RECURSIVE findIndexFrom(_, _, _)
findIndexFrom(arr, hex, i) ==
  IF i > Len(arr) THEN -1
  ELSE IF similarHex(hex, arr[i], 8) THEN i - 1
  ELSE findIndexFrom(arr, hex, i + 1)

\* line 28: the indices (1-based) the filter keeps
dedupKeeps(arr) == {i \in 1..Len(arr) : i - 1 = findIndexFrom(arr, arr[i], 1)}

RECURSIVE pickKept(_, _, _)
pickKept(arr, keep, i) ==
  IF i > Len(arr) THEN <<>>
  ELSE IF i \in keep THEN <<arr[i]>> \o pickKept(arr, keep, i + 1)
  ELSE pickKept(arr, keep, i + 1)

dedupFilter(arr) == pickKept(arr, dedupKeeps(arr), 1)

\* line 31: result.slice(0, Math.max(3, k))
sliceResult(arr, k) == SubSeq(arr, 1, Min(Len(arr), Max(3, k)))

\* ---- getDominantHexes as a state machine ------------------------------

RECURSIVE SeqsUpTo(_, _)
SeqsUpTo(S, n) ==
  IF n = 0 THEN {<<>>}
  ELSE LET P == SeqsUpTo(S, n - 1) IN P \cup {Append(q, x) : q \in P, x \in S}

InitPalette ==
  /\ EdgeIdle
  /\ MatchIdle
  /\ OrderIdle
  /\ AppIdle
  /\ ppc = "read"
  /\ pixels \in SeqsUpTo(PixelKinds, MaxPixels) \ {<<>>}
  /\ kArg \in 1..MaxK
  /\ points = <<>> /\ centers = <<>> /\ seedIters = 0 /\ iter = 0
  /\ hexes = <<>> /\ deduped = <<>> /\ result = <<>>

\* lines 12-21: sample the pixels and filter the noise
Sample ==
  /\ ppc = "read"
  /\ points' = SelectSeq(samplePixels(pixels), keepSample)
  /\ ppc' = "kmeans"
  /\ UNCHANGED <<pixels, kArg, centers, seedIters, iter, hexes, deduped, result>>
  /\ UNCHANGED <<edgeVars, matchVars, orderVars, appVars>>

\* kmeansPP, lines 76-79: no sample gives no center, else the first center
\* is the sample at (Math.random() * points.length) | 0
SeedFirst ==
  /\ ppc = "kmeans"
  /\ IF Len(points) = 0
     THEN /\ centers' = <<>>
          /\ ppc' = "sort"
     ELSE /\ \E i \in 1..Len(points) : centers' = <<seedCenter(points[i])>>
          /\ ppc' = "seed"
  /\ UNCHANGED <<pixels, kArg, points, seedIters, iter, hexes, deduped, result>>
  /\ UNCHANGED <<edgeVars, matchVars, orderVars, appVars>>

\* kmeansPP, lines 86-97: one iteration of while (centers.length < k)
SeedNext ==
  /\ ppc = "seed"
  /\ Len(centers) < clusterCount(kArg, Len(points))
  /\ seedIters < MaxSeedIters
  /\ LET dists == seedDists(points, centers)
     IN \E r2 \in seedDraws(dists) :
          LET i == seedPick(dists, r2, 1)
          IN centers' = IF i = 0 THEN centers
                        ELSE Append(centers, seedCenter(points[i]))
  /\ seedIters' = seedIters + 1
  /\ UNCHANGED <<ppc, pixels, kArg, points, iter, hexes, deduped, result>>
  /\ UNCHANGED <<edgeVars, matchVars, orderVars, appVars>>

\* kmeansPP, line 86: the seeding loop exits
SeedDone ==
  /\ ppc = "seed"
  /\ ~(Len(centers) < clusterCount(kArg, Len(points)))
  /\ ppc' = "lloyd"
  /\ iter' = 0
  /\ UNCHANGED <<pixels, kArg, points, centers, seedIters, hexes, deduped, result>>
  /\ UNCHANGED <<edgeVars, matchVars, orderVars, appVars>>

\* kmeansPP, lines 100-120: one Lloyd iteration
Lloyd ==
  /\ ppc = "lloyd"
  /\ iter < LloydIterations
  /\ centers' = lloydStep(points, centers)
  /\ iter' = iter + 1
  /\ UNCHANGED <<ppc, pixels, kArg, points, seedIters, hexes, deduped, result>>
  /\ UNCHANGED <<edgeVars, matchVars, orderVars, appVars>>

\* kmeansPP, line 121
KmeansReturn ==
  /\ ppc = "lloyd"
  /\ ~(iter < LloydIterations)
  /\ ppc' = "sort"
  /\ UNCHANGED <<pixels, kArg, points, centers, seedIters, iter, hexes, deduped, result>>
  /\ UNCHANGED <<edgeVars, matchVars, orderVars, appVars>>

\* lines 24-26: sort by weight and map to hex
SortHex ==
  /\ ppc = "sort"
  /\ hexes' = [i \in 1..Len(centers) |-> rgbToHex(sortByWeight(centers)[i])]
  /\ ppc' = "dedup"
  /\ UNCHANGED <<pixels, kArg, points, centers, seedIters, iter, deduped, result>>
  /\ UNCHANGED <<edgeVars, matchVars, orderVars, appVars>>

\* lines 28-31: de-duplicate and return
Dedup ==
  /\ ppc = "dedup"
  /\ deduped' = dedupFilter(hexes)
  /\ result' = sliceResult(deduped', kArg)
  /\ ppc' = "done"
  /\ UNCHANGED <<pixels, kArg, points, centers, seedIters, iter, hexes>>
  /\ UNCHANGED <<edgeVars, matchVars, orderVars, appVars>>

NextPalette ==
  \/ Sample \/ SeedFirst \/ SeedNext \/ SeedDone \/ Lloyd \/ KmeansReturn
  \/ SortHex \/ Dedup

SpecPalette == InitPalette /\ [][NextPalette]_vars

\* ------------------------------------------------------------------------
\* services/color.ts and utils/fcPalette.ts
\* ------------------------------------------------------------------------

\* JavaScript values of the raw palette data.  A string is the sequence of
\* its characters.
Undef   == [t |-> "undefined"]
NaNVal  == [t |-> "nan"]
Num(n)  == [t |-> "num", v |-> n]
Str(cs) == [t |-> "str", v |-> cs]
Bool(b) == [t |-> "bool", v |-> b]
Arr(a)  == [t |-> "arr", v |-> a]
Obj(f)  == [obj |-> TRUE, f |-> f]
NullItem == [obj |-> FALSE, f |-> <<>>]

\* The raw items the palette data is cut from.  Black 199, Light Flesh 132
\* and Helio Turquoise 151 are the pencils of App.tsx lines 72-74; the
\* others repeat a colour under another number or lack a field.
ItBlack  == Obj(("FC_Number" :> Num(199)) @@ ("FC_Color" :> Str(<<"B", "l", "a", "c", "k">>)) @@
                ("Hex" :> Str(<<"#", "0", "0", "0", "0", "0", "0">>)) @@ ("RGB" :> Arr(<<0, 0, 0>>)) @@
                ("set12" :> Bool(TRUE)))
ItNoHex  == Obj(("id" :> Num(7)) @@ ("name" :> Str(<<"N", "o", "H", "e", "x">>)))
ItFlesh  == Obj(("number" :> Str(<<"1", "3", "2">>)) @@ ("name" :> Str(<<"L", "i", "g", "h", "t", " ", "F", "l", "e", "s", "h">>)) @@
                ("hex" :> Str(<<"F", "4", "C", "9", "B", "1">>)))
ItTurq   == Obj(("id" :> Num(151)) @@ ("name" :> Str(<<"H", "e", "l", "i", "o", " ", "T", "u", "r", "q", "u", "o", "i", "s", "e">>)) @@
                ("hex" :> Str(<<"#", "5", "f", "b", "1", "c", "5">>)) @@ ("set12" :> Str(<<"y", "e", "s">>)))
ItNoId   == Obj(("name" :> Str(<<"N", "o", "I", "d">>)) @@ ("hex" :> Str(<<"#", "F", "F", "F", "F", "F", "F">>)))
ItTurq2  == Obj(("code" :> Num(152)) @@ ("Color" :> Str(<<"H", "e", "l", "i", "o", " ", "T", "u", "r", "q", "u", "o", "i", "s", "e">>)) @@
                ("HEX" :> Str(<<"#", "5", "F", "B", "1", "C", "5">>)) @@ ("set12" :> Num(1)))
ItWhite  == Obj(("id" :> Num(101)) @@ ("label" :> Str(<<"W", "h", "i", "t", "e">>)) @@
                ("hex" :> Str(<<"#", "f", "f", "f">>)) @@ ("set12" :> Bool(FALSE)))
ItNoName == Obj(("id" :> Num(9)) @@ ("hex" :> Str(<<"#", "0", "0", "0", "0", "0", "0">>)))
ItZeroId == Obj(("id" :> Num(0)) @@ ("name" :> Str(<<"Z", "e", "r", "o">>)) @@ ("hex" :> Str(<<"#", "F", "F", "F", "F", "F", "F">>)))
ItFlesh2 == Obj(("FC" :> Num(133)) @@ ("name" :> Str(<<"L", "i", "g", "h", "t", " ", "F", "l", "e", "s", "h">>)) @@
                ("hex" :> Str(<<"#", "F", "4", "C", "9", "B", "1">>)) @@ ("set12" :> Bool(TRUE)))
ItBlank  == Obj(("id" :> Num(8)) @@ ("name" :> Str(<<"B", "l", "a", "n", "k">>)) @@ ("hex" :> Str(<<" ", " ">>)))

Catalogue ==
  <<ItFlesh, ItNoHex, ItTurq, ItBlack, NullItem, ItTurq2, ItNoId, ItWhite,
    ItNoName, ItFlesh2, ItZeroId, ItBlank>>

SourceLists == { <<<<"#", "0", "0", "0", "0", "0", "0">>>>, <<<<"#", "5", "f", "b", "1", "c", "5">>, <<"F", "4", "C", "9", "B", "1">>>> }
ExportStyles == {"none", "default", "FC_COLORS", "colors"}

\* x.k of an object literal
get(x, k) == IF k \in DOMAIN x.f THEN x.f[k] ELSE Undef

\* a ?? b ?? ... ?? dflt
RECURSIVE coalesce(_, _)
coalesce(vals, dflt) ==
  IF vals = <<>> THEN dflt
  ELSE IF Head(vals).t \notin {"undefined", "null"} THEN Head(vals)
  ELSE coalesce(Tail(vals), dflt)

digitChars == <<"0", "1", "2", "3", "4", "5", "6", "7", "8", "9">>
isDigit(c) == \E d \in 1..10 : digitChars[d] = c
digitVal(c) == (CHOOSE d \in 1..10 : digitChars[d] = c) - 1

RECURSIVE parseDecimal(_, _)
parseDecimal(cs, acc) ==
  IF cs = <<>> THEN acc ELSE parseDecimal(Tail(cs), 10 * acc + digitVal(Head(cs)))

\* Number(v): [nan, n]
toNumber(v) ==
  CASE v.t = "num"  -> [nan |-> FALSE, n |-> v.v]
    [] v.t = "bool" -> [nan |-> FALSE, n |-> IF v.v THEN 1 ELSE 0]
    [] v.t = "str"  -> IF \A i \in 1..Len(v.v) : isDigit(v.v[i])
                       THEN [nan |-> FALSE, n |-> parseDecimal(v.v, 0)]
                       ELSE [nan |-> TRUE, n |-> 0]
    [] OTHER        -> [nan |-> TRUE, n |-> 0]

RECURSIVE numToChars(_)
numToChars(n) ==
  IF n < 10 THEN <<digitChars[n + 1]>>
  ELSE numToChars(n \div 10) \o <<digitChars[(n % 10) + 1]>>

\* String(v) for the strings and non-negative integers of the data
toString(v) ==
  CASE v.t = "str" -> v.v
    [] v.t = "num" -> numToChars(v.v)

RECURSIVE trimStart(_)
trimStart(cs) ==
  IF cs # <<>> /\ Head(cs) = " " THEN trimStart(Tail(cs)) ELSE cs

RECURSIVE trimEnd(_)
trimEnd(cs) ==
  IF cs # <<>> /\ cs[Len(cs)] = " " THEN trimEnd(SubSeq(cs, 1, Len(cs) - 1)) ELSE cs

trim(cs) == trimEnd(trimStart(cs))

lowerChars == <<"a", "b", "c", "d", "e", "f">>
upperChars == <<"A", "B", "C", "D", "E", "F">>
toUpperChar(c) ==
  IF \E i \in 1..6 : lowerChars[i] = c
  THEN upperChars[CHOOSE i \in 1..6 : lowerChars[i] = c]
  ELSE c

\* lines 25-30
normalizeHex(h) ==
  LET t == IF h # <<>> /\ h[1] = "#" THEN h ELSE <<"#">> \o h
  IN IF Len(t) = 4
     THEN <<"#", t[2], t[2], t[3], t[3], t[4], t[4]>>
     ELSE [i \in 1..Len(t) |-> toUpperChar(t[i])]

\* the set size a key of the data names, lines 42-49 ("" if none)
setKeySize(k) == IF k = "set12" THEN "12" ELSE ""

\* line 46
isYes(v) ==
  \/ v.t = "bool" /\ v.v = TRUE
  \/ v.t = "num" /\ v.v = 1
  \/ v.t = "str" /\ trim(v.v) \in {<<"1">>, <<"y", "e", "s">>,
                                  <<"t", "r", "u", "e">>, <<"Y">>}

\* lines 32-63: the empty sequence stands for null, <<pencil>> for a pencil
normalizeItem(x) ==
  IF ~x.obj THEN <<>>
  ELSE
    LET id == toNumber(coalesce(<<get(x, "FC_Number"), get(x, "number"),
                                  get(x, "id"), get(x, "FC"), get(x, "code")>>,
                                NaNVal))
        name == toString(coalesce(<<get(x, "FC_Color"), get(x, "name"),
                                    get(x, "Color"), get(x, "label")>>, Str(<<>>)))
        hex == trim(toString(coalesce(<<get(x, "Hex"), get(x, "hex"),
                                        get(x, "HEX")>>, Str(<<>>))))
        sets == {setKeySize(k) : k \in {kk \in DOMAIN x.f :
                                         setKeySize(kk) # "" /\ isYes(x.f[kk])}}
        rgb == IF get(x, "RGB").t = "arr" /\ Len(get(x, "RGB").v) = 3
               THEN get(x, "RGB").v ELSE <<>>
    IN IF id.nan \/ id.n = 0 \/ name = <<>> \/ hex = <<>> THEN <<>>
       ELSE <<[id |-> id.n, name |-> name, hex |-> normalizeHex(hex),
               rgb |-> rgb, sets |-> sets]>>

\* the namespace object of ../utils/colorMatch: its functions, and the
\* palette data under the export that carries it
moduleExports(style, raw) ==
  [n \in {"hexToLab", "deltaE", "nearestFC"} \cup (IF style = "none" THEN {} ELSE {style}) |->
     IF n = style THEN [t |-> "data", v |-> raw] ELSE [t |-> "function"]]

\* lines 18-22; a module namespace object is never an array
fcRawMaybe(m) ==
  coalesce(<<IF "default" \in DOMAIN m THEN m["default"] ELSE Undef,
             IF "FC_COLORS" \in DOMAIN m THEN m["FC_COLORS"] ELSE Undef,
             IF "colors" \in DOMAIN m THEN m["colors"] ELSE Undef>>, Undef)

RECURSIVE mapNormalize(_)
mapNormalize(items) ==
  IF items = <<>> THEN <<>>
  ELSE normalizeItem(Head(items)) \o mapNormalize(Tail(items))

\* lines 65-67
FC_ALL(m) ==
  LET raw == fcRawMaybe(m)
  IN IF raw.t = "data" /\ raw.v.arr THEN mapNormalize(raw.v.items) ELSE <<>>

\* lines 70-77; setSize "" stands for undefined
getFCPalette(all, setSize) ==
  IF setSize = "" THEN all
  ELSE SelectSeq(all, LAMBDA q : setSize \in q.sets)

hexChars == <<"0", "1", "2", "3", "4", "5", "6", "7", "8", "9",
              "A", "B", "C", "D", "E", "F">>
hexVal(c) == (CHOOSE d \in 1..16 : hexChars[d] = toUpperChar(c)) - 1

\* lines 109-112
fcHexToRgb(hex) ==
  LET h == Tail(normalizeHex(hex))
  IN <<16 * hexVal(h[1]) + hexVal(h[2]), 16 * hexVal(h[3]) + hexVal(h[4]),
       16 * hexVal(h[5]) + hexVal(h[6])>>

\* lines 113-133: L, a, b in hundredths, rounded, for the colours of the data
rgbToLab(rgb) ==
  CASE rgb = <<0, 0, 0>>       -> <<0, 0, 0>>
    [] rgb = <<244, 201, 177>> -> <<8406, 1176, 1771>>
    [] rgb = <<95, 177, 197>>  -> <<6795, -1949, -1787>>
    [] rgb = <<255, 255, 255>> -> <<10000, 0, 0>>

\* lines 134-136
hexToLab(hex) == rgbToLab(fcHexToRgb(hex))

\* lines 137-140: the square of deltaE76 (in hundredths); the sort only
\* compares distances, and the square root is monotone
deltaE76(l1, l2) ==
  (l1[1] - l2[1]) * (l1[1] - l2[1]) + (l1[2] - l2[2]) * (l1[2] - l2[2])
  + (l1[3] - l2[3]) * (l1[3] - l2[3])

\* variant of insertByDist for a descending comparator (b.dE - a.dE)
insertByDist_desc(srt, e) ==
  LET n == Cardinality({i \in 1..Len(srt) : srt[i].dE >= e.dE})
  IN SubSeq(srt, 1, n) \o <<e>> \o SubSeq(srt, n + 1, Len(srt))

\* line 95: stable sort with comparator a.dE - b.dE; e goes after the
\* entries of the sorted prefix that are not farther than it
insertByDist(srt, e) ==
  LET n == Cardinality({i \in 1..Len(srt) : srt[i].dE <= e.dE})
  IN SubSeq(srt, 1, n) \o <<e>> \o SubSeq(srt, n + 1, Len(srt))

RECURSIVE sortByDist(_)
sortByDist(sc) ==
  IF sc = <<>> THEN <<>>
  ELSE insertByDist(sortByDist(SubSeq(sc, 1, Len(sc) - 1)), sc[Len(sc)])

\* line 84: Math.max(1, Math.min(5, opts.topK ?? 1))
matchTopK(o) == Max(1, Min(5, IF o.topK = <<>> THEN 1 ELSE o.topK[1]))

\* lines 86-89
paletteLab(q) == IF q.rgb # <<>> THEN rgbToLab(q.rgb) ELSE hexToLab(q.hex)

\* lines 79-99
matchToFaberCastell(all, hexs, o) ==
  LET palette == getFCPalette(all, o.setSize)
      topK == matchTopK(o)
  IN [s \in 1..Len(hexs) |->
        LET scored == [i \in 1..Len(palette) |->
                         [pencil |-> palette[i],
                          dE |-> deltaE76(hexToLab(hexs[s]), paletteLab(palette[i]))]]
            ranked == sortByDist(scored)
        IN [sourceHex |-> normalizeHex(hexs[s]),
            matches |-> SubSeq(ranked, 1, Min(topK, Len(ranked)))]]

\* ---- utils/colorMatch.ts (palette.ts lines 136-204) --------------------

\* lines 142-146: the channels times 255
hexToRgb01(hex) ==
  LET h == IF \E i \in 1..Len(hex) : hex[i] = "#"
           THEN LET i == CHOOSE i \in 1..Len(hex) :
                           hex[i] = "#" /\ \A j \in 1..(i - 1) : hex[j] # "#"
                IN SubSeq(hex, 1, i - 1) \o SubSeq(hex, i + 1, Len(hex))
           ELSE hex
      t == IF Len(h) = 3 THEN <<h[1], h[1], h[2], h[2], h[3], h[3]>> ELSE h
  IN <<16 * hexVal(t[1]) + hexVal(t[2]), 16 * hexVal(t[3]) + hexVal(t[4]),
       16 * hexVal(t[5]) + hexVal(t[6])>>

\* lines 166-189 after lines 156-161: deltaE(hexToLab(h1), hexToLab(h2)) in
\* hundredths, rounded, for the colours of the data
deltaE(h1, h2) ==
  LET c == {hexToRgb01(h1), hexToRgb01(h2)}
      black == <<0, 0, 0>>
      flesh == <<244, 201, 177>>
      turq  == <<95, 177, 197>>
      white == <<255, 255, 255>>
  IN CASE Cardinality(c) = 1   -> 0
       [] c = {black, flesh} -> 7777
       [] c = {black, turq}  -> 5838
       [] c = {black, white} -> 10000
       [] c = {turq, flesh}  -> 3556
       [] c = {turq, white}  -> 2858
       [] c = {flesh, white} -> 1869

\* line 200: stable sort with comparator a.deltaE - b.deltaE
insertByDeltaE(srt, e) ==
  LET n == Cardinality({i \in 1..Len(srt) : srt[i].deltaE <= e.deltaE})
  IN SubSeq(srt, 1, n) \o <<e>> \o SubSeq(srt, n + 1, Len(srt))

RECURSIVE sortByDeltaE(_)
sortByDeltaE(sc) ==
  IF sc = <<>> THEN <<>>
  ELSE insertByDeltaE(sortByDeltaE(SubSeq(sc, 1, Len(sc) - 1)), sc[Len(sc)])

\* lines 191-204, for k >= 0; kOpt <<>> stands for an omitted k
nearestFC(inputHexes, lib, kOpt) ==
  LET k == IF kOpt = <<>> THEN 1 ELSE kOpt[1]
  IN [s \in 1..Len(inputHexes) |->
        LET scored == [i \in 1..Len(lib) |->
                         [id |-> lib[i].id, name |-> lib[i].name, hex |-> lib[i].hex,
                          deltaE |-> deltaE(inputHexes[s], lib[i].hex)]]
            ranked == sortByDeltaE(scored)
        IN [inputHex |-> inputHexes[s],
            matches |-> SubSeq(ranked, 1, Min(k, Len(ranked)))]]

\* ---- the module of services/color.ts and its callers -------------------

InitMatch ==
  /\ EdgeIdle
  /\ PaletteIdle
  /\ OrderIdle
  /\ AppIdle
  /\ mpc = "init"
  /\ \E i \in 1..(Len(Catalogue) + 1), j \in 0..Len(Catalogue), arr \in BOOLEAN :
       /\ j >= i - 1
       /\ arr \/ j = i - 1
       /\ fcRaw = [arr |-> arr, items |-> SubSeq(Catalogue, i, j)]
  /\ exportAs \in ExportStyles
  /\ opts \in [setSize : {"", "12"}, topK : {<<>>} \cup {<<n>> : n \in 0..MaxTopK}]
  /\ sourceHexes \in SourceLists
  /\ fcAll = <<>> /\ results = <<>> /\ loaded = <<>> /\ lerr = ""

\* services/color.ts is evaluated: lines 18-22 and 65-67
ModuleLoad ==
  /\ mpc = "init"
  /\ fcAll' = FC_ALL(moduleExports(exportAs, fcRaw))
  /\ mpc' = "ready"
  /\ UNCHANGED <<fcRaw, exportAs, opts, sourceHexes, results, loaded, lerr>>
  /\ UNCHANGED <<edgeVars, paletteVars, orderVars, appVars>>

\* lines 79-99
Match ==
  /\ mpc = "ready"
  /\ results' = matchToFaberCastell(fcAll, sourceHexes, opts)
  /\ mpc' = "matched"
  /\ UNCHANGED <<fcRaw, exportAs, fcAll, opts, sourceHexes, loaded, lerr>>
  /\ UNCHANGED <<edgeVars, paletteVars, orderVars, appVars>>

\* nearestFC of utils/colorMatch.ts called with the palette as its library
Nearest ==
  /\ mpc = "ready"
  /\ results' = nearestFC(sourceHexes, fcAll, opts.topK)
  /\ mpc' = "ranked"
  /\ UNCHANGED <<fcRaw, exportAs, fcAll, opts, sourceHexes, loaded, lerr>>
  /\ UNCHANGED <<edgeVars, paletteVars, orderVars, appVars>>

\* fcPalette.ts lines 12-19, with fcRaw as the JSON body of the response
LoadPalette ==
  /\ mpc = "init"
  /\ \E ok \in BOOLEAN :
       IF ~ok
       THEN lerr' = "Palette fetch failed" /\ UNCHANGED loaded
       ELSE IF ~fcRaw.arr \/ Len(fcRaw.items) = 0
       THEN lerr' = "Palette JSON empty" /\ UNCHANGED loaded
       ELSE loaded' = fcRaw.items /\ UNCHANGED lerr
  /\ mpc' = "fetched"
  /\ UNCHANGED <<fcRaw, exportAs, fcAll, opts, sourceHexes, results>>
  /\ UNCHANGED <<edgeVars, paletteVars, orderVars, appVars>>

NextMatch == ModuleLoad \/ Match \/ Nearest \/ LoadPalette

SpecMatch == InitMatch /\ [][NextMatch]_vars

\* ------------------------------------------------------------------------
\* App.tsx
\* ------------------------------------------------------------------------

Photos == 1..MaxPhotos

\* line 15: useState({ busy: false })
InitApp ==
  /\ EdgeIdle
  /\ PaletteIdle
  /\ MatchIdle
  /\ OrderIdle
  /\ state = [originalDataUrl |-> 0, lineArtUrl |-> 0, busy |-> FALSE, error |-> ""]
  /\ reads = {}
  /\ request = 0
  /\ pdf = {}

\* lines 23-38: Choose Photo (lines 92-98, disabled while busy) opens the
\* file dialog, and onFile starts a FileReader on the chosen file
PickFile ==
  /\ ~state.busy
  /\ \E p \in Photos : reads' = reads \cup {p}
  /\ UNCHANGED <<state, request, pdf>>
  /\ UNCHANGED <<edgeVars, paletteVars, matchVars, orderVars>>

\* lines 29-35: reader.onload
ReaderLoad ==
  /\ \E p \in reads :
       /\ state' = [state EXCEPT !.originalDataUrl = p, !.lineArtUrl = 0, !.error = ""]
       /\ reads' = reads \ {p}
  /\ UNCHANGED <<request, pdf>>
  /\ UNCHANGED <<edgeVars, paletteVars, matchVars, orderVars>>

\* line 36: reader.onerror
ReaderError ==
  /\ \E p \in reads :
       /\ state' = [state EXCEPT !.error = "Failed to read file"]
       /\ reads' = reads \ {p}
  /\ UNCHANGED <<request, pdf>>
  /\ UNCHANGED <<edgeVars, paletteVars, matchVars, orderVars>>

\* lines 40-43: Reset (lines 100-106, disabled while busy)
Reset ==
  /\ ~state.busy
  /\ state' = [originalDataUrl |-> 0, lineArtUrl |-> 0, busy |-> FALSE, error |-> ""]
  /\ UNCHANGED <<reads, request, pdf>>
  /\ UNCHANGED <<edgeVars, paletteVars, matchVars, orderVars>>

\* lines 45-52 up to the await: Generate Line Art (lines 118-124) is disabled
\* without a photo or while busy, so the branch of lines 46-49 is not taken
GenerateClick ==
  /\ state.originalDataUrl # 0
  /\ ~state.busy
  /\ state' = [state EXCEPT !.busy = TRUE, !.error = ""]
  /\ request' = state.originalDataUrl
  /\ UNCHANGED <<reads, pdf>>
  /\ UNCHANGED <<edgeVars, paletteVars, matchVars, orderVars>>

\* lines 52-53: the call resolves with the line art of the photo it sent
GenerateResolved ==
  /\ request # 0
  /\ state' = [state EXCEPT !.lineArtUrl = request, !.busy = FALSE]
  /\ request' = 0
  /\ UNCHANGED <<reads, pdf>>
  /\ UNCHANGED <<edgeVars, paletteVars, matchVars, orderVars>>

\* lines 54-56: the call rejects
GenerateRejected ==
  /\ request # 0
  /\ state' = [state EXCEPT !.busy = FALSE, !.error = "AI line art failed"]
  /\ request' = 0
  /\ UNCHANGED <<reads, pdf>>
  /\ UNCHANGED <<edgeVars, paletteVars, matchVars, orderVars>>

\* lines 60-78: Download PDF (lines 109-116, disabled without both images
\* or while busy)
DownloadPdf ==
  /\ state.originalDataUrl # 0 /\ state.lineArtUrl # 0 /\ ~state.busy
  /\ pdf' = pdf \cup {[originalDataUrl |-> state.originalDataUrl,
                       lineArtUrl |-> state.lineArtUrl]}
  /\ UNCHANGED <<state, reads, request>>
  /\ UNCHANGED <<edgeVars, paletteVars, matchVars, orderVars>>

NextApp ==
  \/ PickFile \/ ReaderLoad \/ ReaderError \/ Reset
  \/ GenerateClick \/ GenerateResolved \/ GenerateRejected \/ DownloadPdf

SpecApp == InitApp /\ [][NextApp]_vars

\* ------------------------------------------------------------------------
\* Properties of getDominantHexes
\* ------------------------------------------------------------------------

\* the image is one fully-opaque colour that passes the noise filter
solidImage ==
  /\ \A i \in 1..Len(pixels) : pixels[i] = pixels[1]
  /\ pixels[1].a = 255
  /\ keepSample(pixels[1])

\* hex and colour differ by at most 8 in squared sRGB distance 8 * 8
hexNear(hex, q) ==
  LET c == hexToRgb(hex)
  IN (c.r - q.r) * (c.r - q.r) + (c.g - q.g) * (c.g - q.g)
     + (c.b - q.b) * (c.b - q.b) <= 8 * 8

\* C1: on a solid, fully-opaque image whose colour survives the noise filter
\* getDominantHexes returns at least one hex within tolerance of that colour
\* and at most max(3, k) entries, for any k >= 1.
C1_SolidColourFound ==
  (ppc = "done" /\ solidImage) =>
    /\ \E i \in 1..Len(result) : hexNear(result[i], pixels[1])
    /\ Len(result) <= Max(3, kArg)

\* the entries that have no earlier entry within tolerance
firstOccurrences(arr) ==
  pickKept(arr, {i \in 1..Len(arr) :
                   \A j \in 1..(i - 1) : ~hexNear(arr[j], hexToRgb(arr[i]))}, 1)

\* C3: the de-duplication of the weight-sorted hex list keeps the first
\* occurrence of each group of near-equal hexes, drops only later entries
\* within tolerance of an earlier one, and always keeps the first entry.
C3_DedupKeepsFirst ==
  ppc = "done" =>
    /\ deduped = firstOccurrences(hexes)
    /\ hexes # <<>> => (deduped # <<>> /\ deduped[1] = hexes[1])

\* C4: the seeding loop of kmeansPP reaches the requested number of centers
\* in bounded time whatever the random source yields: every iteration adds a
\* center, so the loop runs at most k - 1 iterations.
C4_SeedingBounded ==
  ppc = "seed" =>
    /\ Len(centers) = 1 + seedIters
    /\ seedIters <= clusterCount(kArg, Len(points)) - 1

\* ------------------------------------------------------------------------
\* Properties of the palette matchers and loaders
\* ------------------------------------------------------------------------

requestedTopK == IF opts.topK = <<>> THEN 1 ELSE opts.topK[1]
clampedTopK == IF requestedTopK < 1 THEN 1 ELSE IF requestedTopK > 5 THEN 5 ELSE requestedTopK

\* the place of palette entry q in the stable ascending order of the distances D
rankOf(D, q) ==
  Cardinality({r \in 1..Len(D) : D[r] < D[q] \/ (D[r] = D[q] /\ r < q)}) + 1

\* the palette each matcher works on
matchPalette == getFCPalette(fcAll, opts.setSize)

matchDistances(s) ==
  [q \in 1..Len(matchPalette) |->
     deltaE76(hexToLab(sourceHexes[s]), paletteLab(matchPalette[q]))]

nearestDistances(s) ==
  [q \in 1..Len(fcAll) |-> deltaE(sourceHexes[s], fcAll[q].hex)]

MatchRanksStably ==
  mpc = "matched" =>
    \A s \in 1..Len(sourceHexes) :
      LET M == results[s].matches
          D == matchDistances(s)
      IN /\ Len(M) = Min(clampedTopK, Len(matchPalette))
         /\ \A i \in 1..Len(M) :
              \E q \in 1..Len(matchPalette) :
                /\ rankOf(D, q) = i
                /\ M[i] = [pencil |-> matchPalette[q], dE |-> D[q]]

NearestRanksStably ==
  mpc = "ranked" =>
    \A s \in 1..Len(sourceHexes) :
      LET M == results[s].matches
          D == nearestDistances(s)
      IN /\ Len(M) = Min(clampedTopK, Len(fcAll))
         /\ \A i \in 1..Len(M) :
              \E q \in 1..Len(fcAll) :
                /\ rankOf(D, q) = i
                /\ M[i] = [id |-> fcAll[q].id, name |-> fcAll[q].name,
                           hex |-> fcAll[q].hex, deltaE |-> D[q]]

\* C7: for each source hex the matcher returns exactly the first
\* clamp(topK, 1, 5) entries (or the whole palette if it is smaller) of the
\* palette stably sorted ascending by distance to the source, entries at
\* equal distance in palette order; for matchToFaberCastell and for nearestFC.
C7_RanksStablyClamped == MatchRanksStably /\ NearestRanksStably

blackHex == <<"#", "0", "0", "0", "0", "0", "0">>
hasBlack199(P) == \E q \in 1..Len(P) : P[q].id = 199 /\ P[q].hex = blackHex

blackQuery ==
  /\ sourceHexes = <<blackHex>>
  /\ opts.topK = <<1>>
  /\ \/ mpc = "matched" /\ hasBlack199(matchPalette)
     \/ mpc = "ranked" /\ hasBlack199(fcAll)

hasRequiredFields(x) ==
  /\ x.obj
  /\ get(x, "id").t = "num"
  /\ get(x, "name").t = "str" /\ get(x, "name").v # <<>>
  /\ get(x, "hex").t = "str" /\ get(x, "hex").v # <<>>

\* C9: every entry of a loaded palette has a numeric id, a non-empty name and
\* a non-empty hex; raw items missing any of them are excluded at load time,
\* by FC_ALL and by loadFaberCastellPalette alike.
C9_LoadedEntriesComplete ==
  /\ mpc \in {"ready", "matched", "ranked"} =>
       \A q \in 1..Len(fcAll) :
         fcAll[q].id # 0 /\ fcAll[q].name # <<>> /\ fcAll[q].hex # <<>>
  /\ (mpc = "fetched" /\ lerr = "") =>
       \A q \in 1..Len(loaded) : hasRequiredFields(loaded[q])

\* ------------------------------------------------------------------------
\* Properties of toEdgePng
\* ------------------------------------------------------------------------
stageRan(name) == \E k \in 1..Len(ran) : ran[k] = name

adj8(i, j, w) ==
  /\ i # j
  /\ Abs((i % w) - (j % w)) <= 1
  /\ Abs((i \div w) - (j \div w)) <= 1

\* worklist flood: seed with the pixels >= high, propagate to 8-neighbours
\* that are >= low until nothing is added
RECURSIVE flood(_, _, _)
flood(S, cand, w) ==
  LET new == {j \in cand \ S : \E i \in S : adj8(i, j, w)}
  IN IF new = {} THEN S ELSE flood(S \cup new, cand, w)

floodStrong ==
  flood({i \in DOMAIN nms : nms[i] >= thr.high},
        {i \in DOMAIN nms : nms[i] >= thr.low}, dims.workW)

\* C2: for a source of uniform intensity the NMS field is all zero, the
\* thresholds are {high: 0, low: 0}, hysteresis returns an all-background
\* map and every rendered pixel is white.
C2_UniformIsBlank ==
  src.uniform =>
    /\ stageRan("nms") => \A i \in DOMAIN nms : nms[i] = 0
    /\ stageRan("thresholds") => thr = [high |-> 0, low |-> 0]
    /\ pc = "seal" => \A i \in DOMAIN edges : edges[i] = 0
    /\ pc = "done" => \A j \in DOMAIN painted : painted[j] = 255

\* C5: when hysteresis returns, a pixel is strong exactly when it is >= high
\* or is >= low and joined to a pixel >= high by a chain of 8-adjacent
\* pixels >= low, which is the result of the worklist flood.
C5_HysteresisIsFlood ==
  pc = "seal" => {i \in DOMAIN edges : edges[i] = 2} = floodStrong

\* a weak pixel with no pixel >= high next to it was promoted (multi-hop)
C5_Witness ==
  /\ pc = "seal"
  /\ \E i \in DOMAIN edges :
       /\ nms[i] < thr.high
       /\ edges[i] = 2
       /\ \A j \in DOMAIN edges : adj8(i, j, dims.workW) => nms[j] < thr.high

\* C6: hysteresis is idempotent: another pass over the returned map promotes
\* nothing, and no weak pixel of the returned map touches a strong pixel.
C6_HysteresisIdempotent ==
  pc = "seal" =>
    /\ hystPass(edges, dims.workW, dims.workH) = edges
    /\ \A i, j \in DOMAIN edges :
         edges[i] = 1 /\ adj8(i, j, dims.workW) => edges[j] # 2

\* the returned map holds a promoted pixel and, elsewhere, a weak pixel
C6_Witness ==
  /\ pc = "seal"
  /\ passes >= 2
  /\ \E i \in DOMAIN edges : edges[i] = 1
  /\ \E i \in DOMAIN edges : nms[i] < thr.high /\ edges[i] = 2

\* C10: a source of width 0 or height 0 makes toEdgePng reject before any
\* pipeline stage has run.
C10_ZeroSizedRejected ==
  (src.w = 0 \/ src.h = 0) =>
    /\ ran = <<>>
    /\ pc = "load" \/ (pc = "rejected" /\ err # "")

C10_Witness == pc = "rejected" /\ (src.w = 0 \/ src.h = 0) /\ ran = <<>>

\* n is x / d rounded to the nearest integer, halves upwards (Math.round)
isRound(n, x, d) == 2 * n * d <= 2 * x + d /\ 2 * x + d < (2 * n + 2) * d

\* C11: for every source of width >= 1 and height >= 1 and every
\* maxOutWidth >= 1 the output raster has width min(maxOutWidth, source
\* width) and height round(source height * width / source width), the
\* working canvas is twice that in both dimensions, and both output
\* dimensions are >= 1, so that the pipeline produces a raster.
C11_OutputDimensions ==
  (pc # "load" /\ src.w >= 1 /\ src.h >= 1) =>
    /\ dims.targetW = Min(maxOutW, src.w)
    /\ isRound(dims.targetH, src.h * dims.targetW, src.w)
    /\ dims.workW = 2 * dims.targetW /\ dims.workH = 2 * dims.targetH
    /\ dims.targetW >= 1 /\ dims.targetH >= 1
    /\ pc # "rejected"

\* C12: after hysteresis linking completes the edge map holds only the
\* values background (0) and strong (2): no pixel still holds weak (1),
\* in the map hysteresis returns and in the map medianSeal returns.
C12_NoWeakLeft ==
  pc \in {"seal", "render", "done"} =>
    \A i \in DOMAIN edges : edges[i] \in {0, 2}

\* the samples whose nearest center, first on ties, is center i of cs
assignedTo(cs, i) ==
  {j \in 1..Len(points) :
     /\ \A c \in 1..Len(cs) :
          dist2Num(points[j], cs[i]) * cs[c].d * cs[c].d
            <= dist2Num(points[j], cs[c]) * cs[i].d * cs[i].d
     /\ \A c \in 1..(i - 1) :
          dist2Num(points[j], cs[i]) * cs[c].d * cs[c].d
            < dist2Num(points[j], cs[c]) * cs[i].d * cs[i].d}

\* C13: when kmeansPP returns, the weight of each center is the number of
\* samples assigned to it in the final Lloyd iteration (0 for a center
\* without samples), so the weights sum to the number of samples.
C13_WeightIsAssignedCount ==
  [][(ppc = "lloyd" /\ iter' = LloydIterations /\ iter = LloydIterations - 1) =>
       /\ \A i \in 1..Len(centers) :
            centers'[i].weight = Cardinality(assignedTo(centers, i))
       /\ SeqSum([i \in 1..Len(centers) |-> centers'[i].weight]) = Len(points)]_vars

\* the number of pixels hysteresis classifies as weak (lines 92-95)
initiallyWeak ==
  Cardinality({i \in DOMAIN nms : nms[i] < thr.high /\ nms[i] >= thr.low})

\* C14: the fixed-point loop of hysteresis terminates: a pixel never leaves
\* the strong state, every pass that sets the changed flag promotes at least
\* one weak pixel, and at most (number of initially weak pixels + 1) full
\* passes run, the last of them without a promotion.
C14_HysteresisTerminates ==
  /\ [](pc \in {"link", "seal", "render", "done"} => passes <= initiallyWeak + 1)
  /\ []((pc = "link" /\ ~changed) => passes >= 1)
  /\ [][(pc = "link" /\ passes' = passes + 1) =>
          /\ \A i \in DOMAIN edges : edges[i] = 2 => edges'[i] = 2
          /\ changed' <=> (\E i \in DOMAIN edges : edges[i] = 1 /\ edges'[i] = 2)]_vars

C14_Witness == pc = "seal" /\ passes >= 3 /\ initiallyWeak >= 2

\* C15: the final hysteresis edge map does not depend on the order in which
\* weak pixels are examined: applying the promotion in any pixel order and
\* repeating until a full pass makes no promotion yields the map of the
\* sequential row-major scan.
C15_OrderIndependent ==
  (pc = "seal" /\ opc = "returned") => omap = edges

C15_Witness ==
  /\ pc = "seal" /\ opc = "returned"
  /\ passes >= 3
  /\ omap = edges
  /\ \E i \in DOMAIN omap : omap[i] = 2 /\ nms[i] < thr.high

\* the strong pixels among the pixels of map m within one step of pixel i,
\* itself included, on a w x h grid
strongAround(m, i, w, h) ==
  {j \in DOMAIN m :
     /\ m[j] = 2
     /\ Abs((j % w) - (i % w)) <= 1
     /\ Abs((j \div w) - (i \div w)) <= 1}

\* C16: medianSeal is one pass over a snapshot of its input: a pixel is
\* strong in the result if and only if it was strong in the input or at
\* least 5 pixels of its 3x3 neighbourhood (itself included) were strong in
\* the input; no strong pixel is cleared and every other pixel keeps its
\* input value.
C16_SealIsSnapshotMajority ==
  [][(pc = "seal" /\ pc' = "render") =>
       \A i \in DOMAIN edges :
         /\ edges'[i] = 2 <=>
              (edges[i] = 2
               \/ Cardinality(strongAround(edges, i, dims.workW, dims.workH)) >= 5)
         /\ edges'[i] # 2 => edges'[i] = edges[i]]_vars

\* the seal made a pixel j strong that was background for hysteresis (below
\* the low threshold), and a pixel i scanned after j, next to it, is left as
\* it was although 5 pixels around it are strong once j is sealed
C16_Witness ==
  /\ pc = "render"
  /\ \E i, j \in DOMAIN edges :
       /\ j < i
       /\ edges[j] = 2 /\ nms[j] < thr.low
       /\ edges[i] # 2
       /\ isInterior(i, dims.workW, dims.workH)
       /\ j \in strongAround(edges, i, dims.workW, dims.workH)
       /\ Cardinality(strongAround(edges, i, dims.workW, dims.workH)) >= 5

\* the 1-pixel border ring of a w x h buffer
borderRing(w, h) ==
  {i \in 0 .. (w * h - 1) :
     i % w = 0 \/ i % w = w - 1 \/ i \div w = 0 \/ i \div w = h - 1}

\* C17: for every width and height of the working buffer, those below 3
\* included, sobel, nonMaxSuppression, hysteresis and medianSeal read and
\* write only indices in [0, width * height), and the Sobel magnitude and the
\* NMS output are zero on the 1-pixel border ring.
C17_IndicesInBounds ==
  pc \notin {"load", "rejected"} =>
    LET w == dims.workW
        h == dims.workH
        buf == 0 .. (w * h - 1)
    IN /\ sobelReads(w, h) \cup sobelWrites(w, h) \subseteq buf
       /\ nmsReads(w, h) \cup nmsWrites(w, h) \subseteq buf
       /\ hystAccesses(w, h) \subseteq buf
       /\ sealAccesses(w, h) \subseteq buf
       /\ \A i \in buf : isInterior(i, w, h) <=> i \in scanned(w, h)
       /\ stageRan("sobel") => \A i \in borderRing(w, h) : mag[i] = 0
       /\ stageRan("nms") => \A i \in borderRing(w, h) : nms[i] = 0

\* the stages ran on a buffer with interior pixels next to every side of the
\* border and a non-zero gradient
C17_Witness ==
  /\ pc = "done"
  /\ dims.workW >= 4 /\ dims.workH >= 4
  /\ \E i \in DOMAIN mag : mag[i] > 0
  /\ \A i \in borderRing(dims.workW, dims.workH) : mag[i] = 0 /\ nms[i] = 0

\* C18: whenever lineArtUrl is set it is the line art generated from the
\* photo held in originalDataUrl, under every interleaving of file-read
\* completions, Generate clicks, Generate responses and Reset; a line art is
\* never shown, or exported to PDF, next to a different original photo.
C18_LineArtMatchesOriginal ==
  /\ state.lineArtUrl # 0 => state.lineArtUrl = state.originalDataUrl
  /\ \A page \in pdf : page.lineArtUrl = page.originalDataUrl

====
